---- MODULE Spec2Model ----
(***************************************************************************)
(* Model of the squash-merge action: main, SquashMergeExecutor and the     *)
(* bump classifier.  Two variants of the program are in the repository:    *)
(*   "local"  - src/src/index.js      (clone + git CLI, recreate, bump)    *)
(*   "hosted" - src/unnamed/part_000  (branch checks + hosting merge API)  *)
(* Strings the program splits, trims or searches are sequences of          *)
(* one-character strings; strings it only compares or passes on are        *)
(* TLA+ strings.                                                           *)
(***************************************************************************)
EXTENDS Integers, Sequences, FiniteSets, TLC

VARIABLES
    variant,               \* which of the two source files runs
    token,                 \* core.getInput('token')
    target_repos_input,    \* core.getInput('target_repos')
    source_branch,         \* core.getInput('source_branch')
    target_branch,         \* core.getInput('target_branch')
    delete_source_branch,  \* core.getInput('delete_source_branch')
    create_release,        \* core.getInput('create_release')
    pc,                    \* position of the single thread of control
    target_repos,          \* main: split(',').map(trim)
    idx,                   \* position of the for..of loop (1-based)
    results,               \* executeSquashMerge: {successful, failed, skipped, summary}
    owner,                 \* loop: first segment of repoFullName.split('/')
    repo,                  \* loop: second segment
    comparison,            \* processRepository: result of compareCommits
    commit_message,        \* performSquashMerge (local): message read from release.ver
    remote,                \* hosting side: do the two branches exist in the repository
    releaseVer,            \* content of release.ver on the source branch / in the work tree
    cwd,                   \* process.cwd(): 0 is the directory the action started in
    originalDir,           \* performSquashMerge: let originalDir = process.cwd()
    tmpDirs,               \* temporary directories that exist (named by loop position)
    calls,                 \* hosting-API / git operations issued in the current pipeline run
    thrown,                \* the error raised in the current pipeline run, if any
    entered,               \* executeSquashMerge has been called
    runStatus,             \* "failed" after core.setFailed, "" otherwise
    failMessage,           \* argument of core.setFailed
    highest_bump_type      \* main (local): output highest_bump_type

inputs == <<variant, token, target_repos_input, source_branch, target_branch,
            delete_source_branch, create_release>>
locals == <<owner, repo, comparison, commit_message>>
world  == <<remote, releaseVer, cwd, originalDir, tmpDirs>>
outs   == <<runStatus, failMessage, highest_bump_type>>
vars   == <<inputs, pc, target_repos, idx, results, locals, world, calls, thrown,
            entered, outs>>

\* ------------------------------------------------------------------ bounds
\* longest comma-separated repository list that is tried
MaxRepos == 2

\* ------------------------------------------------------------- string model
Undefined == <<"undefined">>
Null == "null"

Whitespace == {" ", "\n", "\t"}

Upper == <<"A","B","C","D","E","F","G","H","I","J","K","L","M",
           "N","O","P","Q","R","S","T","U","V","W","X","Y","Z">>
Lower == <<"a","b","c","d","e","f","g","h","i","j","k","l","m",
           "n","o","p","q","r","s","t","u","v","w","x","y","z">>

LowerChar(c) ==
    IF \E k \in 1..Len(Upper) : Upper[k] = c
    THEN Lower[CHOOSE k \in 1..Len(Upper) : Upper[k] = c]
    ELSE c

\* String.prototype.toLowerCase
ToLowerCase(s) == [k \in 1..Len(s) |-> LowerChar(s[k])]

\* String.prototype.trim
Trim(s) ==
    LET keep == {k \in 1..Len(s) : s[k] \notin Whitespace}
    IN  IF keep = {} THEN <<>>
        ELSE LET lo == CHOOSE k \in keep : \A j \in keep : k <= j
                 hi == CHOOSE k \in keep : \A j \in keep : k >= j
             IN  SubSeq(s, lo, hi)

\* String.prototype.includes
Includes(s, sub) ==
    \E k \in 0..(Len(s) - Len(sub)) : SubSeq(s, k + 1, k + Len(sub)) = sub

\* String.prototype.startsWith
StartsWith(s, p) == Len(p) <= Len(s) /\ SubSeq(s, 1, Len(p)) = p

RECURSIVE SplitFrom(_, _, _, _, _)
SplitFrom(s, sep, k, cur, acc) ==
    IF k > Len(s) THEN Append(acc, cur)
    ELSE IF s[k] = sep THEN SplitFrom(s, sep, k + 1, <<>>, Append(acc, cur))
    ELSE SplitFrom(s, sep, k + 1, Append(cur, s[k]), acc)

\* String.prototype.split with a one-character separator: "" gives [""]
Split(s, sep) == SplitFrom(s, sep, 1, <<>>, <<>>)

RECURSIVE Join(_, _)
\* Array.prototype.join
Join(parts, sep) ==
    IF Len(parts) = 0 THEN <<>>
    ELSE IF Len(parts) = 1 THEN parts[1]
    ELSE parts[1] \o sep \o Join(Tail(parts), sep)

\* array destructuring: a missing element is undefined
Element(a, k) == IF k <= Len(a) THEN a[k] ELSE Undefined

\* JavaScript falsiness of a string-or-undefined value
Falsy(x) == x = Undefined \/ x = <<>>

\* ------------------------------------------------------- version-bump hint
major == <<"m","a","j","o","r">>
minor == <<"m","i","n","o","r">>
patch == <<"p","a","t","c","h">>
colon == <<":">>

determineBumpTypeFromMessage(message) ==
    LET lowerMessage == Trim(ToLowerCase(message))
    IN  IF Includes(lowerMessage, major) \/ StartsWith(lowerMessage, major \o colon)
        THEN "major"
        ELSE IF Includes(lowerMessage, minor) \/ StartsWith(lowerMessage, minor \o colon)
        THEN "minor"
        ELSE IF Includes(lowerMessage, patch) \/ StartsWith(lowerMessage, patch \o colon)
        THEN "patch"
        ELSE Null

levels == [patch |-> 1, minor |-> 2, major |-> 3]

\* mutant of getHigherBumpType: the later type wins
getLaterBumpType(typeA, typeB) == IF typeB = Null THEN typeA ELSE typeB

getHigherBumpType(typeA, typeB) ==
    IF typeA = Null THEN typeB
    ELSE IF typeB = Null THEN typeA
    ELSE IF levels[typeA] > levels[typeB] THEN typeA ELSE typeB

RECURSIVE FoldBump(_, _, _)
\* main: for (const result of results.successful) { ... }
FoldBump(successful, k, highestBumpType) ==
    IF k > Len(successful) THEN highestBumpType
    ELSE IF successful[k].commit_message # <<>>
    THEN FoldBump(successful, k + 1,
             getHigherBumpType(highestBumpType,
                 determineBumpTypeFromMessage(successful[k].commit_message)))
    ELSE FoldBump(successful, k + 1, highestBumpType)

\* ------------------------------------------------------------------ inputs
Variants == {"local", "hosted"}
Tokens == {"", "ghp"}
\* " a/b", "c/d/e", "a/", "/b", "ab"
RepoIds == { <<" ","a","/","b">>, <<"c","/","d","/","e">>,
             <<"a","/">>, <<"/","b">>, <<"a","b">> }
RepoLists == UNION { [1..n -> RepoIds] : n \in 0..MaxRepos }
\* <<source_branch, target_branch>>
BranchPairs == { <<"staging", "main">>, <<"main", "prod">>, <<"master", "prod">> }
Flags == {"true", "false"}
AheadValues == {0, 3}
Absent == <<"absent">>
DefaultMessage == <<"c","h","o","r","e",":"," ","s","q","u","a","s","h"," ","m","e","r","g","e">>
\* release.ver on the source branch: missing, blank, "patch: fix bug\n",
\* "Major rewrite", " minor: api"
ReleaseVerContents ==
    { Absent, <<" ","\n">>,
      <<"p","a","t","c","h",":"," ","f","i","x"," ","b","u","g","\n">>,
      <<"M","a","j","o","r"," ","r","e","w","r","i","t","e">>,
      <<" ","m","i","n","o","r",":"," ","a","p","i">> }

NoError == [step |-> "", status |-> 0, message |-> ""]
NoComparison == [ahead_by |-> -1]
EmptyResults == [successful |-> <<>>, failed |-> <<>>, skipped |-> <<>>,
                 summary |-> [total |-> -1, successful |-> -1, failed |-> -1, skipped |-> -1]]

Init ==
    /\ variant \in Variants
    /\ token \in Tokens
    /\ target_repos_input \in { Join(l, <<",">>) : l \in RepoLists }
    /\ \E bp \in BranchPairs : source_branch = bp[1] /\ target_branch = bp[2]
    /\ delete_source_branch \in Flags
    /\ create_release \in Flags
    /\ pc = "main"
    /\ target_repos = <<>>
    /\ idx = 1
    /\ results = EmptyResults
    /\ owner = Undefined
    /\ repo = Undefined
    /\ comparison = NoComparison
    /\ commit_message = <<>>
    /\ remote = [src |-> TRUE, tgt |-> TRUE]
    /\ releaseVer = Absent
    /\ cwd = 0
    /\ originalDir = 0
    /\ tmpDirs = {}
    /\ calls = <<>>
    /\ thrown = NoError
    /\ entered = FALSE
    /\ runStatus = ""
    /\ failMessage = ""
    /\ highest_bump_type = Null

\* -------------------------------------------------------------------- main
\* main, up to the call of executeSquashMerge; the catch of main for the two
\* configuration errors
MainStart ==
    /\ pc = "main"
    /\ target_repos' = [k \in 1..Len(Split(target_repos_input, ",")) |->
                            Trim(Split(target_repos_input, ",")[k])]
    /\ IF token = ""
       THEN /\ runStatus' = "failed"
            /\ failMessage' = "GitHub token is required"
            /\ pc' = "done"
            /\ entered' = FALSE
       ELSE IF Len(target_repos') = 0
       THEN /\ runStatus' = "failed"
            /\ failMessage' = "Target repositories are required"
            /\ pc' = "done"
            /\ entered' = FALSE
       ELSE /\ pc' = "loop"
            /\ entered' = TRUE
            /\ UNCHANGED <<runStatus, failMessage>>
    /\ UNCHANGED <<inputs, idx, results, locals, world, calls, thrown, highest_bump_type>>

\* ------------------------------------------------- result records and buckets
NoResult == [repo |-> <<>>, success |-> FALSE, skipped |-> FALSE, reason |-> <<>>,
             error |-> "", commits_count |-> 0, commit_message |-> <<>>,
             source_branch_deleted |-> FALSE, release |-> FALSE]

FullName(o, r) == o \o <<"/">> \o r

\* mutant of SkippedResult: the returned object lacks skipped: true
SkippedResultNoFlag(o, r, reason) ==
    [NoResult EXCEPT !.repo = FullName(o, r), !.reason = reason]

SkippedResult(o, r, reason) ==
    [NoResult EXCEPT !.repo = FullName(o, r), !.skipped = TRUE, !.reason = reason]

FailedResult(o, r, message) ==
    [NoResult EXCEPT !.repo = FullName(o, r), !.error = message]

InvalidResult(repoFullName) ==
    [NoResult EXCEPT !.repo = repoFullName, !.error = "Invalid repository format"]

\* mutant of Classify: the second test is not chained with else
ClassifyNoElse(res, result) ==
    LET first == IF result.success THEN [res EXCEPT !.successful = Append(@, result)]
                 ELSE res
    IN  IF result.skipped THEN [first EXCEPT !.skipped = Append(@, result)]
        ELSE [first EXCEPT !.failed = Append(@, result)]

\* executeSquashMerge: if (result.success) ... else if (result.skipped) ... else ...
Classify(res, result) ==
    IF result.success THEN [res EXCEPT !.successful = Append(@, result)]
    ELSE IF result.skipped THEN [res EXCEPT !.skipped = Append(@, result)]
    ELSE [res EXCEPT !.failed = Append(@, result)]

\* the loop's validity test: if (!owner || !repo)
InvalidFormat(o, r) == Falsy(o) \/ Falsy(r)

\* processRepository returns `result`; the loop files it and goes to the next element
ReturnToLoop(result) ==
    /\ results' = Classify(results, result)
    /\ idx' = idx + 1
    /\ pc' = "loop"
    /\ owner' = Undefined
    /\ repo' = Undefined
    /\ commit_message' = <<>>

Return(result) == ReturnToLoop(result) /\ UNCHANGED comparison

\* ------------------------------------------------------ executeSquashMerge
FirstStep == IF variant = "local" THEN "compare" ELSE "repos_get"

\* one loop iteration whose identifier fails the format test
LoopInvalid ==
    /\ pc = "loop"
    /\ idx <= Len(target_repos)
    /\ LET repoFullName == target_repos[idx]
           parts == Split(repoFullName, "/")
       IN  /\ InvalidFormat(Element(parts, 1), Element(parts, 2))
           /\ results' = [results EXCEPT !.failed = Append(@, InvalidResult(repoFullName))]
    /\ idx' = idx + 1
    /\ comparison' = NoComparison
    /\ calls' = <<>>
    /\ thrown' = NoError
    /\ UNCHANGED <<inputs, pc, target_repos, owner, repo, commit_message, world, entered, outs>>

\* one loop iteration that calls processRepository; the state of the two
\* branches in that repository is the environment's
LoopDispatch ==
    /\ pc = "loop"
    /\ idx <= Len(target_repos)
    /\ LET parts == Split(target_repos[idx], "/")
       IN  /\ ~InvalidFormat(Element(parts, 1), Element(parts, 2))
           /\ owner' = Element(parts, 1)
           /\ repo' = Element(parts, 2)
    /\ remote' \in [src : BOOLEAN, tgt : BOOLEAN]
    /\ pc' = FirstStep
    /\ comparison' = NoComparison
    /\ calls' = <<>>
    /\ thrown' = NoError
    /\ UNCHANGED <<inputs, target_repos, idx, results, commit_message,
                   releaseVer, cwd, originalDir, tmpDirs, entered, outs>>

\* after the loop: the summary, and the return to main
LoopEnd ==
    /\ pc = "loop"
    /\ idx > Len(target_repos)
    /\ results' = [results EXCEPT !.summary =
                      [total |-> Len(target_repos),
                       successful |-> Len(results.successful),
                       failed |-> Len(results.failed),
                       skipped |-> Len(results.skipped)]]
    /\ pc' = "outputs"
    /\ comparison' = NoComparison
    /\ calls' = <<>>
    /\ thrown' = NoError
    /\ UNCHANGED <<inputs, target_repos, idx, owner, repo, commit_message, world, entered, outs>>

\* mutant of AnyFailure: a batch without a merge counts as failed
AnyFailureOrNoSuccess(res) == Len(res.failed) > 0 \/ Len(res.successful) = 0

\* main: if (results.failed.length > 0)
AnyFailure(res) == Len(res.failed) > 0

\* main after executeSquashMerge: the bump hint (local variant), the outputs and
\* the status of the run
Outputs ==
    /\ pc = "outputs"
    /\ highest_bump_type' = IF variant = "local"
                            THEN FoldBump(results.successful, 1, Null)
                            ELSE Null
    /\ IF AnyFailure(results)
       THEN /\ runStatus' = "failed"
            /\ failMessage' = "Failed to merge in repositories"
       ELSE UNCHANGED <<runStatus, failMessage>>
    /\ pc' = "done"
    /\ UNCHANGED <<inputs, target_repos, idx, results, locals, world, calls, thrown, entered>>

\* -------------------------------------------------------- processRepository
SuccessResult ==
    [NoResult EXCEPT !.repo = FullName(owner, repo),
                     !.success = TRUE,
                     !.commits_count = comparison.ahead_by,
                     !.commit_message = IF variant = "local" THEN commit_message ELSE <<>>,
                     !.source_branch_deleted = (delete_source_branch = "true"),
                     !.release = (create_release = "true")]

Goto(next) ==
    /\ pc' = next
    /\ UNCHANGED <<results, idx, owner, repo, thrown>>

\* mutant of Catch: processRepository has no catch, the error leaves the loop
CatchAbort(step, status, message) ==
    /\ thrown' = [step |-> step, status |-> status, message |-> message]
    /\ pc' = "done"
    /\ UNCHANGED <<results, idx, owner, repo, commit_message, comparison>>

\* catch (error) { return {repo, success: false, error: error.message} }
Catch(step, status, message) ==
    /\ thrown' = [step |-> step, status |-> status, message |-> message]
    /\ Return(FailedResult(owner, repo, message))

Skip(reason) ==
    /\ thrown' = thrown
    /\ Return(SkippedResult(owner, repo, reason))

Succeed ==
    /\ thrown' = thrown
    /\ Return(SuccessResult)

\* the rest of processRepository after a step, up to its next await or its return
Proceed(next) ==
    IF next = "return" THEN Succeed
    ELSE Goto(next) /\ UNCHANGED <<comparison, commit_message>>

\* mutant of AfterDelete: the release step is passed over
AfterDeleteNoRelease == "return"

AfterDelete == IF create_release = "true" THEN "release_getref" ELSE "return"
AfterMerge == IF delete_source_branch = "true" THEN "delete" ELSE AfterDelete

\* hosted: await this.octokit.rest.repos.get({owner, repo})
ReposGet ==
    /\ pc = "repos_get"
    /\ calls' = Append(calls, "repos.get")
    /\ \E ok \in BOOLEAN :
           IF ok THEN Proceed("get_source_ref")
           ELSE Catch("repos.get", 403, "Repository not accessible")
    /\ UNCHANGED <<inputs, target_repos, world, entered, outs>>

\* error.message of a failed hosting-API request
HttpMessage(status) == IF status = 404 THEN "Not Found" ELSE "Server Error"

\* what a getRef of a branch can answer
GetRefStatuses(exists) == (IF exists THEN {200} ELSE {404}) \cup {500}

\* mutant of IsNotFound: the test reads a field the error does not have
IsNotFoundNever(status) == FALSE

\* hosted: if (error.status === 404)
IsNotFound(status) == status = 404

\* hosted: does the source branch exist
GetSourceRef ==
    /\ pc = "get_source_ref"
    /\ calls' = Append(calls, "getRef source")
    /\ \E status \in GetRefStatuses(remote.src) :
           IF status = 200 THEN Proceed("get_target_ref")
           ELSE IF IsNotFound(status)
           THEN Skip(<<"Source branch '", source_branch, "' does not exist">>)
           ELSE Catch("getRef source", status, HttpMessage(status))
    /\ UNCHANGED <<inputs, target_repos, world, entered, outs>>

\* hosted: does the target branch exist
GetTargetRef ==
    /\ pc = "get_target_ref"
    /\ calls' = Append(calls, "getRef target")
    /\ \E status \in GetRefStatuses(remote.tgt) :
           IF status = 200 THEN Proceed("compare")
           ELSE IF IsNotFound(status)
           THEN Skip(<<"Target branch '", target_branch, "' does not exist">>)
           ELSE Catch("getRef target", status, HttpMessage(status))
    /\ UNCHANGED <<inputs, target_repos, world, entered, outs>>

\* compareCommits and the test of ahead_by; a ref that does not exist is a 404
CompareCommits ==
    /\ pc = "compare"
    /\ calls' = Append(calls, "compareCommits")
    /\ \E fault \in BOOLEAN, ahead \in AheadValues :
           IF ~remote.src \/ ~remote.tgt
           THEN Catch("compareCommits", 404, "Not Found") /\ UNCHANGED originalDir
           ELSE IF fault
           THEN Catch("compareCommits", 500, "Server Error") /\ UNCHANGED originalDir
           ELSE IF ahead = 0
           THEN /\ comparison' = [ahead_by |-> 0]
                /\ thrown' = thrown
                /\ ReturnToLoop(SkippedResult(owner, repo,
                       <<"No changes to merge - branches are identical">>))
                /\ UNCHANGED originalDir
           ELSE /\ comparison' = [ahead_by |-> ahead]
                /\ commit_message' = commit_message
                /\ IF variant = "local"
                   THEN Goto("mktemp") /\ originalDir' = cwd
                   ELSE Goto("merge_api") /\ UNCHANGED originalDir
    /\ UNCHANGED <<inputs, target_repos, remote, releaseVer, cwd, tmpDirs, entered, outs>>

\* hosted performSquashMerge: the catch that names the two merge errors
MergeErrorMessage(status) ==
    IF status = 409 THEN "Merge conflict detected - manual resolution required"
    ELSE IF status = 204 THEN "Nothing to merge - branches are identical"
    ELSE "Server Error"

\* hosted: performSquashMerge through the merge endpoint
MergeApi ==
    /\ pc = "merge_api"
    /\ calls' = Append(calls, "merge")
    /\ \E status \in {201, 409, 500} :
           IF status = 201 THEN Proceed(AfterMerge)
           ELSE Catch("merge", status, MergeErrorMessage(status))
    /\ UNCHANGED <<inputs, target_repos, world, entered, outs>>

\* ------------------------------------------- performSquashMerge (local variant)
\* catch (error): the two stderr texts that are renamed
GitErrorMessage(stderr) ==
    IF stderr = "fatal: refusing to merge unrelated histories"
    THEN "Merge conflict detected - manual resolution required"
    ELSE IF stderr = "nothing to commit"
    THEN "Nothing to merge - branches are identical"
    ELSE "Command failed"

\* mutant of RestoreDir: performSquashMerge has no finally
RestoreDirMissing == cwd' = cwd

\* finally { process.chdir(originalDir) }
RestoreDir == cwd' = originalDir

\* a git step fails: catch and finally of performSquashMerge, then the catch of
\* processRepository
GitFail(step, stderr) ==
    /\ Catch(step, 1, GitErrorMessage(stderr))
    /\ RestoreDir
    /\ releaseVer' = Absent

\* a step that runs one command and changes nothing the model tracks
GitStep(step, next, stderrs) ==
    /\ pc = step
    /\ calls' = Append(calls, step)
    /\ \E out \in {"ok"} \cup stderrs :
           IF out = "ok"
           THEN Proceed(next) /\ UNCHANGED <<cwd, releaseVer>>
           ELSE GitFail(step, out)
    /\ UNCHANGED <<inputs, target_repos, remote, originalDir, tmpDirs, entered, outs>>

\* mktemp -d
Mktemp ==
    /\ pc = "mktemp"
    /\ calls' = Append(calls, "mktemp")
    /\ \E ok \in BOOLEAN :
           IF ok
           THEN Proceed("clone") /\ tmpDirs' = tmpDirs \cup {idx} /\ UNCHANGED <<cwd, releaseVer>>
           ELSE GitFail("mktemp", "mktemp: failed") /\ UNCHANGED tmpDirs
    /\ UNCHANGED <<inputs, target_repos, remote, originalDir, entered, outs>>

\* git clone, then process.chdir(repoPath)
Clone ==
    /\ pc = "clone"
    /\ calls' = Append(calls, "git clone")
    /\ \E ok \in BOOLEAN :
           IF ok
           THEN Proceed("config_name") /\ cwd' = idx /\ UNCHANGED releaseVer
           ELSE GitFail("git clone", "fatal: repository not found")
    /\ UNCHANGED <<inputs, target_repos, remote, originalDir, tmpDirs, entered, outs>>

ConfigName == GitStep("config_name", "config_email", {"error: could not lock config file"})
ConfigEmail == GitStep("config_email", "checkout", {"error: could not lock config file"})
Checkout == GitStep("checkout", "fetch", {"error: pathspec did not match"})
Fetch == GitStep("fetch", "checkout_ver", {"fatal: couldn't find remote ref"})

\* git checkout origin/<source> -- release.ver: fails when the source branch has
\* no such file
CheckoutReleaseVer ==
    /\ pc = "checkout_ver"
    /\ calls' = Append(calls, "checkout_ver")
    /\ \E content \in ReleaseVerContents :
           IF content = Absent
           THEN GitFail("checkout_ver", "error: pathspec 'release.ver' did not match")
           ELSE Proceed("read_ver") /\ releaseVer' = content /\ UNCHANGED cwd
    /\ UNCHANGED <<inputs, target_repos, remote, originalDir, tmpDirs, entered, outs>>

\* try { readFile; trim; empty -> throw } catch { default message }
ReadReleaseVer ==
    /\ pc = "read_ver"
    /\ calls' = Append(calls, "read_ver")
    /\ commit_message' = IF releaseVer = Absent \/ Trim(releaseVer) = <<>>
                         THEN DefaultMessage
                         ELSE Trim(releaseVer)
    /\ Goto("rm_ver")
    /\ UNCHANGED <<inputs, target_repos, comparison, world, entered, outs>>

\* finally { rm release.ver }
RmReleaseVer ==
    /\ pc = "rm_ver"
    /\ calls' = Append(calls, "rm_ver")
    /\ \E ok \in BOOLEAN :
           IF ok
           THEN Proceed("merge") /\ releaseVer' = Absent /\ UNCHANGED cwd
           ELSE GitFail("rm_ver", "rm: cannot remove")
    /\ UNCHANGED <<inputs, target_repos, remote, originalDir, tmpDirs, entered, outs>>

MergeSquash == GitStep("merge", "commit",
                   {"fatal: refusing to merge unrelated histories", "CONFLICT"})
Commit == GitStep("commit", "push", {"nothing to commit", "fatal: unable to write"})
Push == GitStep("push", "rev_parse", {"error: failed to push some refs"})

\* git rev-parse HEAD, the return of performSquashMerge and its finally
RevParse ==
    /\ pc = "rev_parse"
    /\ calls' = Append(calls, "rev_parse")
    /\ \E ok \in BOOLEAN :
           IF ok
           THEN Proceed(AfterMerge) /\ RestoreDir /\ UNCHANGED releaseVer
           ELSE GitFail("rev_parse", "fatal: bad revision")
    /\ UNCHANGED <<inputs, target_repos, remote, originalDir, tmpDirs, entered, outs>>

\* ------------------------------------------- delete, recreate, release
\* deleteSourceBranch: if (['main', 'master'].includes(branch_name)) return
Protected(branch_name) == branch_name \in {"main", "master"}

\* where processRepository goes after deleteSourceBranch has returned
AfterDeleteSourceBranch == IF variant = "local" THEN "recreate_getref" ELSE AfterDelete

DeleteSourceBranch ==
    /\ pc = "delete"
    /\ IF Protected(source_branch)
       THEN /\ Proceed(AfterDeleteSourceBranch)
            /\ UNCHANGED <<calls, remote>>
       ELSE /\ calls' = Append(calls, "deleteRef")
            /\ \E fault \in BOOLEAN :
                   IF fault
                   THEN Catch("deleteRef", 500, "Server Error") /\ UNCHANGED remote
                   ELSE IF ~remote.src
                   THEN Catch("deleteRef", 422, "Reference does not exist") /\ UNCHANGED remote
                   ELSE /\ Proceed(AfterDeleteSourceBranch)
                        /\ remote' = [remote EXCEPT !.src = FALSE]
    /\ UNCHANGED <<inputs, target_repos, releaseVer, cwd, originalDir, tmpDirs, entered, outs>>

\* local: recreateSourceBranchAfterDeletion, getRef of the target branch
RecreateGetRef ==
    /\ pc = "recreate_getref"
    /\ calls' = Append(calls, "getRef target")
    /\ \E fault \in BOOLEAN :
           IF fault THEN Catch("recreate getRef", 500, "Server Error")
           ELSE Proceed("recreate_createref")
    /\ UNCHANGED <<inputs, target_repos, world, entered, outs>>

\* local: recreateSourceBranchAfterDeletion, createRef; a ref that exists is a 422
RecreateCreateRef ==
    /\ pc = "recreate_createref"
    /\ calls' = Append(calls, "createRef")
    /\ \E fault \in BOOLEAN :
           IF remote.src
           THEN Catch("createRef", 422, "Reference already exists") /\ UNCHANGED remote
           ELSE IF fault
           THEN Catch("createRef", 500, "Server Error") /\ UNCHANGED remote
           ELSE /\ Proceed(AfterDelete)
                /\ remote' = [remote EXCEPT !.src = TRUE]
    /\ UNCHANGED <<inputs, target_repos, releaseVer, cwd, originalDir, tmpDirs, entered, outs>>

\* createRelease: getRef of the target branch
ReleaseGetRef ==
    /\ pc = "release_getref"
    /\ calls' = Append(calls, "getRef target")
    /\ \E fault \in BOOLEAN :
           IF fault THEN Catch("release getRef", 500, "Server Error")
           ELSE Proceed("release_create")
    /\ UNCHANGED <<inputs, target_repos, world, entered, outs>>

\* createRelease: repos.createRelease, then the return of processRepository
ReleaseCreate ==
    /\ pc = "release_create"
    /\ calls' = Append(calls, "createRelease")
    /\ \E fault \in BOOLEAN :
           IF fault THEN Catch("createRelease", 500, "Server Error")
           ELSE Proceed("return")
    /\ UNCHANGED <<inputs, target_repos, world, entered, outs>>

\* ------------------------------------------------------------ specification
Next ==
    \/ MainStart
    \/ LoopInvalid
    \/ LoopDispatch
    \/ LoopEnd
    \/ Outputs
    \/ ReposGet
    \/ GetSourceRef
    \/ GetTargetRef
    \/ CompareCommits
    \/ MergeApi
    \/ Mktemp
    \/ Clone
    \/ ConfigName
    \/ ConfigEmail
    \/ Checkout
    \/ Fetch
    \/ CheckoutReleaseVer
    \/ ReadReleaseVer
    \/ RmReleaseVer
    \/ MergeSquash
    \/ Commit
    \/ Push
    \/ RevParse
    \/ DeleteSourceBranch
    \/ RecreateGetRef
    \/ RecreateCreateRef
    \/ ReleaseGetRef
    \/ ReleaseCreate

Spec == Init /\ [][Next]_vars

\* ------------------------------------------------------------------ claims
Finished == entered /\ pc \in {"outputs", "done"}
InPipeline == pc \notin {"main", "loop", "outputs", "done"}
Range(f) == { f[k] : k \in DOMAIN f }
MutatingCalls == {"merge", "push", "deleteRef", "createRef", "createRelease"}
RepoAB == <<"a","/","b">>
RepoCD == <<"c","/","d">>
RepoCDE == <<"c","/","d","/","e">>

\* C1: an error raised at any step of the pipeline of one repository becomes a
\* Failed outcome of that repository alone: the outcomes filed before it stay as
\* they were, the loop takes its next element, the run is not failed at that
\* point, and the loop ends only after the last element.
C1_ErrorIsolated ==
    /\ [][ (thrown = NoError /\ thrown' # NoError) =>
             /\ InPipeline
             /\ pc' = "loop"
             /\ idx' = idx + 1
             /\ results'.failed =
                    Append(results.failed, FailedResult(owner, repo, thrown'.message))
             /\ results'.successful = results.successful
             /\ results'.skipped = results.skipped
             /\ runStatus' = runStatus ]_vars
    /\ [](Finished => idx = Len(target_repos) + 1)

\* the first of two repositories failed on a server error and the second was
\* merged all the same
C1_Witness ==
    /\ pc = "done"
    /\ target_repos = <<RepoAB, RepoCDE>>
    /\ Len(results.failed) = 1
    /\ results.failed[1].repo = RepoAB
    /\ results.failed[1].error = "Server Error"
    /\ Len(results.successful) = 1
    /\ results.successful[1].repo = RepoCD

\* C2: the summary's total is the sum of the lengths of the three lists, for
\* every repository list and every mix of outcomes.
C2_SummaryTotal ==
    Finished =>
        results.summary.total =
            Len(results.successful) + Len(results.failed) + Len(results.skipped)

\* a list that names the same repository twice, one run merged and one skipped
C2_Witness ==
    /\ pc = "done"
    /\ Len(target_repos) = 2
    /\ target_repos[1] = target_repos[2]
    /\ results.summary.total = 2
    /\ Len(results.successful) = 1
    /\ Len(results.skipped) = 1

Buckets == {"successful", "failed", "skipped"}
ReposOf(bucket) == [k \in 1..Len(bucket) |-> bucket[k].repo]

RECURSIVE PickAt(_, _, _, _)
\* the elements of seq, from position k on, that f sends to bucket b
PickAt(seq, f, b, k) ==
    IF k > Len(seq) THEN <<>>
    ELSE (IF f[k] = b THEN <<seq[k]>> ELSE <<>>) \o PickAt(seq, f, b, k + 1)

\* C3: after executeSquashMerge every input identifier is in exactly one of the
\* three lists and each list is in input order (identifiers may repeat).
C3_EachIdentifierOnce ==
    Finished =>
        \E f \in [1..Len(target_repos) -> Buckets] :
            \A b \in Buckets : ReposOf(results[b]) = PickAt(target_repos, f, b, 1)

\* an identifier is owner/name: exactly one '/', both segments non-empty
WellFormed(id) ==
    LET parts == Split(id, "/")
    IN  Len(parts) = 2 /\ parts[1] # <<>> /\ parts[2] # <<>>

\* C4: an identifier that is not exactly two non-empty segments is filed as
\* Failed "Invalid repository format" and processRepository is not called for it.
C4_MalformedRejected ==
    [][ (pc = "loop" /\ idx <= Len(target_repos) /\ ~WellFormed(target_repos[idx])) =>
          /\ pc' = "loop"
          /\ results'.failed = Append(results.failed, InvalidResult(target_repos[idx]))
          /\ results'.successful = results.successful
          /\ results'.skipped = results.skipped ]_vars

\* C5: when compareCommits reports zero commits ahead the outcome is Skipped
\* with the reason "No changes to merge...", never Success or Failed, and no
\* merge, deletion, recreation or release is issued for that repository.
C5_ZeroAheadSkips ==
    [][ (comparison.ahead_by # 0 /\ comparison'.ahead_by = 0) =>
          /\ results'.skipped =
                 Append(results.skipped,
                        [NoResult EXCEPT !.repo = FullName(owner, repo),
                                         !.skipped = TRUE,
                                         !.reason = <<"No changes to merge - branches are identical">>])
          /\ results'.successful = results.successful
          /\ results'.failed = results.failed
          /\ thrown' = NoError
          /\ pc' = "loop"
          /\ Range(calls') \cap MutatingCalls = {} ]_vars

\* the comparison has just reported zero commits ahead
C5_Witness ==
    /\ pc = "loop"
    /\ comparison.ahead_by = 0
    /\ Len(results.skipped) >= 1

\* the reason processRepository gives for the branch that is missing
MissingBranchReason ==
    IF ~remote.src THEN <<"Source branch '", source_branch, "' does not exist">>
    ELSE <<"Target branch '", target_branch, "' does not exist">>

\* a pipeline run returns for a repository in which a branch was missing from the
\* start, and no error other than "not found" was raised
ReturnsWithMissingBranch ==
    /\ InPipeline
    /\ pc' = "loop"
    /\ ~remote.src \/ ~remote.tgt
    /\ "deleteRef" \notin Range(calls')
    /\ thrown'.status \in {0, 404}

SkippedForMissingBranch ==
    /\ results'.skipped =
           Append(results.skipped, SkippedResult(owner, repo, MissingBranchReason))
    /\ results'.failed = results.failed
    /\ results'.successful = results.successful
    /\ thrown' = NoError

\* C6 as stated: in either variant a repository whose source or target branch
\* does not exist is Skipped with a reason that names the branch, never Failed.
C6_MissingBranchSkipped ==
    [][ ReturnsWithMissingBranch => SkippedForMissingBranch ]_vars

\* C6 amended: in the variant that looks the two branches up before comparing
\* (part_000), a lookup answered 404 gives Skipped with the reason naming that
\* branch, never Failed, and nothing is compared or merged.
C6_MissingBranchSkippedHosted ==
    [][ (variant = "hosted" /\ ReturnsWithMissingBranch) =>
          /\ SkippedForMissingBranch
          /\ Range(calls') \cap ({"compareCommits"} \cup MutatingCalls) = {} ]_vars

\* hosted: the source branch exists, the target branch does not, and the
\* repository has just been filed as skipped for it
C6_Witness ==
    /\ variant = "hosted"
    /\ pc = "loop"
    /\ remote.src /\ ~remote.tgt
    /\ thrown = NoError
    /\ Len(results.skipped) >= 1
    /\ results.skipped[Len(results.skipped)].reason =
           <<"Target branch '", target_branch, "' does not exist">>

\* C7: with the delete flag set and a source branch named main or master,
\* deleteRef is never called and step 4 (delete, then recreate) raises no
\* error of its own (a server fault apart).
C7_ProtectedDeleteIsNoop ==
    (delete_source_branch = "true" /\ Protected(source_branch)) =>
        /\ "deleteRef" \notin Range(calls)
        /\ ~(/\ thrown.step \in {"deleteRef", "recreate getRef", "createRef"}
             /\ thrown.status # 500)

\* C8: once all repositories are processed, the run is failed exactly when the
\* failed list is not empty; a batch of skips alone is a successful run.
C8_FailedIffFailures ==
    (entered /\ pc = "done") => (runStatus = "failed" <=> Len(results.failed) > 0)

\* two repositories, both skipped, and the run ended without setFailed
C8_Witness ==
    /\ entered
    /\ pc = "done"
    /\ Len(results.skipped) = 2
    /\ Len(results.successful) = 0
    /\ runStatus = ""

\* C9: a missing token or an empty target_repos input ends the run before
\* executeSquashMerge is entered, with no outcome recorded, and the run failed.
C9_ConfigErrorsFatal ==
    (token = "" \/ target_repos_input = <<>>) =>
        /\ ~entered
        /\ results = EmptyResults
        /\ pc \in {"main", "done"}
        /\ (pc = "done" => runStatus = "failed")

Rank(type) == IF type = Null THEN 0 ELSE levels[type]

\* the highest of a set of bump types, none when the set is empty
MaxBump(types) ==
    IF types = {} THEN Null
    ELSE CHOOSE t \in types : \A u \in types : Rank(u) <= Rank(t)

\* C10: the bump hint main outputs is the maximum, with none as identity, of
\* the classifications of the commit messages of the Success outcomes, in
\* whatever order the repositories come; none when nothing succeeded.
C10_BumpIsMax ==
    (entered /\ pc = "done" /\ variant = "local") =>
        highest_bump_type =
            MaxBump({ determineBumpTypeFromMessage(r.commit_message) :
                        r \in Range(results.successful) })

\* the higher type comes first: a minor message, then a patch message
C10_Witness ==
    /\ entered
    /\ pc = "done"
    /\ variant = "local"
    /\ Len(results.successful) = 2
    /\ determineBumpTypeFromMessage(results.successful[1].commit_message) = "minor"
    /\ determineBumpTypeFromMessage(results.successful[2].commit_message) = "patch"
    /\ highest_bump_type = "minor"

\* the awaits of performSquashMerge in the local variant
MergeSteps == {"mktemp", "clone", "config_name", "config_email", "checkout", "fetch",
               "checkout_ver", "read_ver", "rm_ver", "merge", "commit", "push", "rev_parse"}
InPerformSquashMerge == pc \in MergeSteps

\* C11: performSquashMerge leaves the process in the working directory it was
\* called in, on its return and on an error at any of its steps, so every
\* pipeline run starts in the directory the first one started in.
C11_WorkingDirRestored ==
    /\ [][ (InPerformSquashMerge /\ ~InPerformSquashMerge') => cwd' = originalDir ]_vars
    /\ [](~InPerformSquashMerge => cwd = 0)

\* the push failed, after the chdir into the clone, and the directory is the
\* original one again
C11_Witness ==
    /\ pc = "loop"
    /\ thrown.step = "push"
    /\ idx - 1 \in tmpDirs
    /\ cwd = 0

\* C12: the temporary directory performSquashMerge creates is gone when the
\* call has returned or thrown.
C12_TempDirDiscarded == ~InPerformSquashMerge => tmpDirs = {}

\* C13: the squash commit message is the trimmed content of release.ver of the
\* source branch, and the default "chore: squash merge" when that file is empty
\* or is not on the source branch; a missing file does not fail the repository
\* (in the model the checkout of release.ver fails only when the file is missing).
C13_MessageFromReleaseVer ==
    /\ pc = "rm_ver" =>
           commit_message = IF Trim(releaseVer) = <<>> THEN DefaultMessage
                            ELSE Trim(releaseVer)
    /\ thrown.step # "checkout_ver"

\* position of the first occurrence of call c in the current run, 0 if none
FirstAt(c) ==
    IF c \in Range(calls)
    THEN CHOOSE k \in 1..Len(calls) : calls[k] = c /\ \A j \in 1..(k - 1) : calls[j] # c
    ELSE 0
Count(c) == Cardinality({ k \in 1..Len(calls) : calls[k] = c })

\* the operation whose return ends the squash merge of the variant
MergeReturn == IF variant = "local" THEN "rev_parse" ELSE "merge"
\* the operation that applies the merge to the target branch
MergeApplied == IF variant = "local" THEN "push" ELSE "merge"
LaterCalls == {"deleteRef", "createRef", "createRelease"}
LaterSteps == {"deleteRef", "recreate getRef", "createRef", "release getRef", "createRelease"}

\* c comes before d whenever both were issued
Before(c, d) == (c \in Range(calls) /\ d \in Range(calls)) => FirstAt(c) < FirstAt(d)

\* C14: in one pipeline run the mutating steps come in the order merge, delete,
\* recreate, release, each at most once, and delete-ref, create-ref and
\* create-release are issued only after the merge of that run has returned; a
\* Success outcome means the merge and every requested later step were done
\* without error, and an error in a later step gives Failed with the merge
\* already applied.
C14_MergeFirst ==
    /\ \A c \in LaterCalls :
           /\ Count(c) <= 1
           /\ c \in Range(calls) => (MergeReturn \in Range(calls) /\ Before(MergeReturn, c))
    /\ Count(MergeApplied) <= 1
    /\ Before("deleteRef", "createRef")
    /\ Before("deleteRef", "createRelease")
    /\ Before("createRef", "createRelease")
    /\ (pc \in {"delete", "recreate_getref", "recreate_createref",
                "release_getref", "release_create"}) =>
           (MergeApplied \in Range(calls) /\ thrown = NoError)
    /\ (pc = "loop" /\ calls # <<>> /\ thrown = NoError /\ comparison.ahead_by > 0) =>
           /\ results.successful # <<>>
           /\ MergeApplied \in Range(calls)
           /\ (delete_source_branch = "true" /\ ~Protected(source_branch))
                  => "deleteRef" \in Range(calls)
           /\ (delete_source_branch = "true" /\ variant = "local")
                  => "createRef" \in Range(calls)
           /\ create_release = "true" => "createRelease" \in Range(calls)
    /\ (pc = "loop" /\ thrown.step \in LaterSteps) =>
           /\ MergeApplied \in Range(calls)
           /\ results.failed # <<>>
           /\ results.failed[Len(results.failed)].error = thrown.message

\* the release failed after the merge was pushed and the source branch was
\* deleted and recreated: the repository is Failed with the merge applied
C14_Witness ==
    /\ pc = "loop"
    /\ thrown.step = "createRelease"
    /\ calls[Len(calls)] = "createRelease"
    /\ {"push", "deleteRef", "createRef"} \subseteq Range(calls)
    /\ results.failed # <<>>

====
